---------------------------- MODULE Spec2Model ----------------------------
(***************************************************************************)
(* The General Problem Solver of paip/gps.py as a state machine.           *)
(*                                                                         *)
(* A fact (a Python string) is a sequence of tokens, so that               *)
(* 'Executing ' + action and str.startswith are computed on the value and  *)
(* not assumed.  A state list is a sequence of facts.  The recursion       *)
(* gps -> achieve_all -> achieve -> apply_operator -> achieve_all is an     *)
(* explicit call stack of frames; every action is one stretch of one       *)
(* function's body between two calls.  The operators list is the one       *)
(* mutable object that outlives a call of gps.                             *)
(***************************************************************************)
EXTENDS Naturals, Sequences, FiniteSets, TLC

VARIABLES
    initial_states,   \* gps argument: the list of initial facts
    goal_states,      \* gps argument: the list of goal facts
    operators,        \* gps argument: the list of operator dicts (mutated by gps)
    stack,            \* the Python call stack below gps, top last
    ret,              \* the value the callee that just returned handed back
    phase,            \* "idle" | "running" | "done": where the caller of gps is
    calls,            \* outcome of every finished gps call, oldest first
    last,             \* the most recent return: the frame that returned and its value
    live,             \* per operator: executions ('Action:' lines) on the branch still pursued
    abandoned         \* per operator: executions inside attempts that then failed

vars ==
    <<initial_states, goal_states, operators, stack, ret, phase, calls, last, live,
      abandoned>>

---------------------------------------------------------------------------
(* Bounds of the model *)

MaxCalls == 2
MaxOps == 3
MaxGoals == 2

---------------------------------------------------------------------------
(* Values *)

Range(s) == {s[k] : k \in DOMAIN s}

\* Python's None and a list, told apart; "set" marks a value waiting for the caller.
None == [set |-> TRUE, isNone |-> TRUE, val |-> <<>>]
Some(l) == [set |-> TRUE, isNone |-> FALSE, val |-> l]
Void == [set |-> FALSE, isNone |-> TRUE, val |-> <<>>]

\* `not x` for x a list or None: None and the empty list are both false.
Truthy(r) == ~r.isNone /\ r.val # <<>>

\* prefix = 'Executing '
prefix == <<"Executing ">>

\* state.startswith(prefix)
startswith(state, p) ==
    Len(state) >= Len(p) /\ SubSeq(state, 1, Len(p)) = p

\* for operator in operators: operator['add'].append(prefix + operator['action'])
Seed(ops) ==
    [k \in DOMAIN ops |->
        [ops[k] EXCEPT !.add = Append(@, prefix \o ops[k].action)]]

\* [state for state in final_states if state.startswith(prefix)]
PlanOf(final_states) ==
    SelectSeq(final_states, LAMBDA state : startswith(state, prefix))

\* Merge with the add-list put in front of the kept states.
MergeAddFirst(result, operator) ==
    operator.add
        \o SelectSeq(result, LAMBDA state : state \notin Range(operator.delete))

\* [state for state in result if state not in delete_list] + add_list
Merge(result, operator) ==
    SelectSeq(result, LAMBDA state : state \notin Range(operator.delete))
        \o operator.add

\* Holds with the early return of achieve never taken.
HoldsNever(goal, states) == FALSE

\* goal in states
Holds(goal, states) == goal \in Range(states)

\* InProgress with the goal stack never consulted.
InProgressNever(goal, goal_stack) == FALSE

\* goal in goal_stack
InProgress(goal, goal_stack) == goal \in Range(goal_stack)

\* goal in op['add']   (negated in the source: `if goal not in op['add']: continue`)
Appropriate(goal, op) == goal \in Range(op.add)

\* StillHold with the second loop of achieve_all left out.
StillHoldUnchecked(goals, states) == TRUE

\* the second loop of achieve_all: no goal is missing from states
StillHold(goals, states) == \A k \in DOMAIN goals : goals[k] \in Range(states)

---------------------------------------------------------------------------
(* Problems *)

SIMPLE_PROBLEM ==
    [start |-> << <<"son at home">>, <<"car needs battery">> >>,
     finish |-> << <<"son at school">> >>,
     ops |-> <<
        [action |-> <<"drive son to school">>,
         preconds |-> << <<"son at home">>, <<"car works">> >>,
         add |-> << <<"son at school">> >>,
         delete |-> << <<"son at home">> >>],
        [action |-> <<"shop installs battery">>,
         preconds |-> << <<"car needs battery">> >>,
         add |-> << <<"car works">> >>,
         delete |-> << <<"car needs battery">> >>] >>]

A == <<"A">>
B == <<"B">>
C == <<"C">>

\* The start lists tried: every sublist of [A, B, C].
StartLists ==
    { <<>>, <<A>>, <<B>>, <<C>>, <<A, B>>, <<A, C>>, <<B, C>>, <<A, B, C>> }

\* The goal lists tried: every list of at most MaxGoals distinct facts of A, B, C.
GoalLists ==
    UNION { { g \in [1..n -> {A, B, C}] :
                \A x, y \in 1..n : x # y => g[x] # g[y] } : n \in 0..MaxGoals }

\* The operator shapes the generated problems are built from.
Pool ==
    { [preconds |-> <<C, B>>, add |-> <<A>>, delete |-> <<>>],
      [preconds |-> <<>>,     add |-> <<B>>, delete |-> <<C>>],
      [preconds |-> <<>>,     add |-> <<A>>, delete |-> <<>>],
      [preconds |-> <<A>>,    add |-> <<C>>, delete |-> <<>>] }

\* An operator of the problem file: a shape under the action name of its position.
Named(shape, k) ==
    [action |-> <<"op", ToString(k)>>, preconds |-> shape.preconds,
     add |-> shape.add, delete |-> shape.delete]

\* Every list of at most MaxOps distinct shapes, named by position.
OpLists ==
    UNION { { [k \in 1..n |-> Named(s[k], k)] :
                s \in { t \in [1..n -> Pool] :
                          \A x, y \in 1..n : x # y => t[x] # t[y] } } :
            n \in 0..MaxOps }

Problems ==
    { SIMPLE_PROBLEM }
    \cup { [start |-> s, finish |-> g, ops |-> o] :
             s \in StartLists, g \in GoalLists, o \in OpLists }

---------------------------------------------------------------------------
(* Frames of the call stack *)

NoFact == <<>>

Frame(fn, states, goals, goal, goal_stack, op) ==
    [fn |-> fn, pc |-> "call", states |-> states, goals |-> goals,
     goal |-> goal, goal_stack |-> goal_stack, op |-> op, i |-> 1,
     sub |-> Void, tried |-> <<>>, live0 |-> live]

NoFrame ==
    [fn |-> "none", pc |-> "call", states |-> <<>>, goals |-> <<>>,
     goal |-> NoFact, goal_stack |-> <<>>, op |-> 0, i |-> 1,
     sub |-> Void, tried |-> <<>>, live0 |-> <<>>]

NoEvent == [valid |-> FALSE, frame |-> NoFrame, value |-> Void]

top == stack[Len(stack)]
Rest == SubSeq(stack, 1, Len(stack) - 1)

Running(fn, pc) ==
    /\ phase = "running"
    /\ stack # <<>>
    /\ top.fn = fn
    /\ top.pc = pc

\* The top frame, as `f`, returns `value` to its caller.
Return(f, value) ==
    /\ stack' = Rest
    /\ ret' = value
    /\ last' = [valid |-> TRUE, frame |-> f, value |-> value]
    /\ live' = IF value.isNone THEN f.live0 ELSE live
    /\ abandoned' = IF value.isNone
                    THEN [k \in DOMAIN live |-> abandoned[k] + (live[k] - f.live0[k])]
                    ELSE abandoned

\* The top frame, changed to `f`, calls a function: `g` is pushed.
Call(f, g) ==
    /\ stack' = Append(Rest, f) \o <<g>>
    /\ ret' = Void
    /\ UNCHANGED <<last, live, abandoned>>

\* The top frame goes on as `f`.
Goto(f) ==
    /\ stack' = Append(Rest, f)
    /\ ret' = Void
    /\ UNCHANGED <<last, live, abandoned>>

---------------------------------------------------------------------------
(* Actions *)

Init ==
    /\ \E p \in Problems :
        /\ initial_states = p.start
        /\ goal_states = p.finish
        /\ operators = p.ops
    /\ stack = <<>>
    /\ ret = Void
    /\ phase = "idle"
    /\ calls = <<>>
    /\ last = NoEvent
    /\ live = [k \in DOMAIN operators |-> 0]
    /\ abandoned = [k \in DOMAIN operators |-> 0]

\* gps, lines 82-86: seed every add-list, then call achieve_all on the goals.
GpsCall ==
    /\ phase \in {"idle", "done"}
    /\ Len(calls) < MaxCalls
    /\ operators' = Seed(operators)
    /\ live' = [k \in DOMAIN operators |-> 0]
    /\ abandoned' = [k \in DOMAIN operators |-> 0]
    /\ stack' = << [Frame("achieve_all", initial_states, goal_states, NoFact, <<>>, 0)
                      EXCEPT !.live0 = live'] >>
    /\ ret' = Void
    /\ phase' = "running"
    /\ last' = NoEvent
    /\ UNCHANGED <<initial_states, goal_states, calls>>

\* gps, line 87: the comprehension over final_states; iterating None raises TypeError.
GpsReturn ==
    /\ phase = "running"
    /\ stack = <<>>
    /\ ret.set
    /\ calls' = Append(calls,
            IF ret.isNone
            THEN [raised |-> TRUE, plan |-> <<>>]
            ELSE [raised |-> FALSE, plan |-> PlanOf(ret.val)])
    /\ phase' = "done"
    /\ ret' = Void
    /\ UNCHANGED <<initial_states, goal_states, operators, stack, last, live, abandoned>>

\* achieve_all, lines 100-101 and 108-112: the next goal is handed to achieve; after
\* the last one the goals are checked again and states returned.
AchieveAllLoop ==
    /\ Running("achieve_all", "call")
    /\ IF top.i <= Len(top.goals)
       THEN Call([top EXCEPT !.pc = "wait"],
                 Frame("achieve", top.states, <<>>, top.goals[top.i],
                       top.goal_stack, 0))
       ELSE IF StillHold(top.goals, top.states)
            THEN Return(top, Some(top.states))
            ELSE Return(top, None)
    /\ UNCHANGED <<initial_states, goal_states, operators, phase, calls>>

\* achieve_all, lines 101-103: states = achieve(...); if not states: return None.
AchieveAllResume ==
    /\ Running("achieve_all", "wait")
    /\ ret.set
    /\ IF Truthy(ret)
       THEN Goto([top EXCEPT !.pc = "call", !.states = ret.val,
                             !.sub = ret, !.i = @ + 1])
       ELSE Return([top EXCEPT !.sub = ret], None)
    /\ UNCHANGED <<initial_states, goal_states, operators, phase, calls>>

\* achieve, lines 128-139: the goal already holds, or is already being achieved.
AchieveEnter ==
    /\ Running("achieve", "call")
    /\ top.op = 0
    /\ IF Holds(top.goal, top.states)
       THEN Return(top, Some(top.states))
       ELSE IF InProgress(top.goal, top.goal_stack)
            THEN Return(top, None)
            ELSE Goto([top EXCEPT !.op = 1])
    /\ UNCHANGED <<initial_states, goal_states, operators, phase, calls>>

\* achieve, lines 141-147 and the end of the function: skip an operator that is not
\* appropriate, try one that is, and fall off the end (None) after the last.
AchieveScan ==
    /\ Running("achieve", "call")
    /\ top.op >= 1
    /\ IF top.op > Len(operators)
       THEN Return(top, None)
       ELSE IF ~Appropriate(top.goal, operators[top.op])
            THEN Goto([top EXCEPT !.op = @ + 1])
            ELSE Call([top EXCEPT !.pc = "wait"],
                      Frame("apply_operator", top.states, <<>>, top.goal,
                            top.goal_stack, top.op))
    /\ UNCHANGED <<initial_states, goal_states, operators, phase, calls>>

\* AchieveResume returning whatever the first appropriate operator gave.
AchieveResumeFirstListed ==
    /\ Running("achieve", "wait")
    /\ ret.set
    /\ LET f == [top EXCEPT !.sub = ret,
                            !.tried = Append(@, [op |-> top.op, res |-> ret])]
       IN Return(f, IF Truthy(ret) THEN Some(ret.val) ELSE None)
    /\ UNCHANGED <<initial_states, goal_states, operators, phase, calls>>

\* AchieveResume with the result stored in `states` (states = apply_operator(...)).
AchieveResumeOverwrites ==
    /\ Running("achieve", "wait")
    /\ ret.set
    /\ LET f == [top EXCEPT !.sub = ret,
                            !.tried = Append(@, [op |-> top.op, res |-> ret])]
       IN IF Truthy(ret)
          THEN Return(f, Some(ret.val))
          ELSE Goto([f EXCEPT !.pc = "call", !.op = @ + 1, !.states = ret.val])
    /\ UNCHANGED <<initial_states, goal_states, operators, phase, calls>>

\* achieve, lines 147-149: result = apply_operator(...); if result: return result.
AchieveResume ==
    /\ Running("achieve", "wait")
    /\ ret.set
    /\ LET f == [top EXCEPT !.sub = ret,
                            !.tried = Append(@, [op |-> top.op, res |-> ret])]
       IN IF Truthy(ret)
          THEN Return(f, Some(ret.val))
          ELSE Goto([f EXCEPT !.pc = "call", !.op = @ + 1])
    /\ UNCHANGED <<initial_states, goal_states, operators, phase, calls>>

\* apply_operator, line 164: achieve_all on the preconditions, the goal pushed
\* on the goal stack.
ApplyCall ==
    /\ Running("apply_operator", "call")
    /\ Call([top EXCEPT !.pc = "wait"],
            Frame("achieve_all", top.states, operators[top.op].preconds, NoFact,
                  <<top.goal>> \o top.goal_stack, 0))
    /\ UNCHANGED <<initial_states, goal_states, operators, phase, calls>>

\* apply_operator, lines 165-172: if not result: return None; else the merged list.
ApplyResume ==
    /\ Running("apply_operator", "wait")
    /\ ret.set
    /\ IF Truthy(ret)
       THEN /\ stack' = Rest
            /\ ret' = Some(Merge(ret.val, operators[top.op]))
            /\ last' = [valid |-> TRUE, frame |-> [top EXCEPT !.sub = ret],
                        value |-> ret']
            /\ live' = [live EXCEPT ![top.op] = @ + 1]
            /\ abandoned' = abandoned
       ELSE Return([top EXCEPT !.sub = ret], None)
    /\ UNCHANGED <<initial_states, goal_states, operators, phase, calls>>

Next ==
    \/ GpsCall
    \/ GpsReturn
    \/ AchieveAllLoop
    \/ AchieveAllResume
    \/ AchieveEnter
    \/ AchieveScan
    \/ AchieveResume
    \/ ApplyCall
    \/ ApplyResume

Spec == Init /\ [][Next]_vars

\* The interpreter runs a started call to its end: no step is ever withheld.
FairSpec == Spec /\ WF_vars(Next)

---------------------------------------------------------------------------
(* Properties *)

Count(s, x) == Cardinality({k \in DOMAIN s : s[k] = x})

\* 'Executing ' + action, the bookkeeping fact of an operator
Marker(op) == prefix \o op.action

Finished == phase = "done" /\ calls # <<>>
Outcome == calls[Len(calls)]

\* The first call of gps on SIMPLE_PROBLEM has returned or raised.
SimpleSolvedOnce ==
    /\ Finished
    /\ Len(calls) = 1
    /\ initial_states = SIMPLE_PROBLEM.start
    /\ goal_states = SIMPLE_PROBLEM.finish

ActionOf(entry) == SubSeq(entry, Len(prefix) + 1, Len(entry))
OpsNamed(entry) == {k \in DOMAIN operators : operators[k].action = ActionOf(entry)}

\* Replaying plan[n..] from the set of facts S: every action is an operator whose
\* preconditions hold in S; S loses its delete facts, then gains its add facts.
RECURSIVE Replay(_, _, _)
Replay(plan, n, S) ==
    IF n > Len(plan)
    THEN [ok |-> TRUE, S |-> S]
    ELSE IF OpsNamed(plan[n]) = {}
         THEN [ok |-> FALSE, S |-> S]
         ELSE LET op == operators[CHOOSE k \in OpsNamed(plan[n]) : TRUE]
              IN IF Range(op.preconds) \subseteq S
                 THEN Replay(plan, n + 1, (S \ Range(op.delete)) \cup Range(op.add))
                 ELSE [ok |-> FALSE, S |-> S]

Executable(plan) ==
    LET r == Replay(plan, 1, Range(initial_states))
    IN r.ok /\ Range(goal_states) \subseteq r.S

\* C2: every plan gps returns can be replayed from the initial facts, each action's
\* preconditions holding when it is applied, and leaves every goal fact true.
C2_PlanExecutable ==
    \A n \in DOMAIN calls : ~calls[n].raised => Executable(calls[n].plan)

\* C3: when the goals cannot be achieved gps returns None to its caller: no gps
\* call ends by raising an error.
C3_FailureIsReturned ==
    \A n \in DOMAIN calls : ~calls[n].raised

\* C4: after any number of gps calls every add-list holds its bookkeeping fact
\* exactly once, and a second call returns what the first call returned.
C4_SeedingIdempotent ==
    /\ phase # "idle" =>
          \A k \in DOMAIN operators :
              Count(operators[k].add, Marker(operators[k])) = 1
    /\ Len(calls) >= 2 => calls[2] = calls[1]

\* The goals [G1, G2] of the clobber case: G2 does not hold at the start, every
\* operator that adds G2 deletes G1, and no operator adds G1.
ClobberCase ==
    /\ Len(goal_states) = 2
    /\ goal_states[1] # goal_states[2]
    /\ goal_states[2] \notin Range(initial_states)
    /\ \A k \in DOMAIN operators :
          /\ goal_states[1] \notin Range(operators[k].add)
          /\ goal_states[2] \in Range(operators[k].add)
                => goal_states[1] \in Range(operators[k].delete)

\* C5: whenever achieve_all returns a state list, every fact of its goal list is in
\* that list; and in the clobber case gps does not return a plan.
C5_GoalsHoldOnReturn ==
    /\ (last.valid /\ last.frame.fn = "achieve_all" /\ ~last.value.isNone) =>
          \A k \in DOMAIN last.frame.goals :
              last.frame.goals[k] \in Range(last.value.val)
    /\ (Finished /\ ClobberCase) => Outcome.raised

\* The top-level achieve_all achieved G1 and G2 one after the other (G2 by an
\* action) and failed in its second loop, in the clobber case.
C5_Witness ==
    /\ ClobberCase
    /\ stack = <<>>
    /\ last.valid
    /\ last.frame.fn = "achieve_all"
    /\ last.frame.pc = "call"
    /\ last.frame.i = Len(last.frame.goals) + 1
    /\ last.value.isNone
    /\ goal_states[1] \in Range(initial_states)
    /\ \E k \in DOMAIN operators : abandoned[k] > 0

\* The operators with the goal in their add-list, and the n-th of them in the
\* order of the collection.
Candidates(goal) == {k \in DOMAIN operators : goal \in Range(operators[k].add)}
NthCandidate(goal, n) ==
    CHOOSE k \in Candidates(goal) :
        Cardinality({j \in Candidates(goal) : j < k}) = n - 1

NoRepeat(s) == \A x, y \in DOMAIN s : x # y => s[x] # s[y]

\* No goal stack holds a fact twice, and neither does the goal stack an
\* apply_operator is about to pass on, [goal] + goal_stack.
GoalStacksRepeatFree ==
    \A p \in DOMAIN stack :
        /\ NoRepeat(stack[p].goal_stack)
        /\ stack[p].fn = "apply_operator" =>
              NoRepeat(<<stack[p].goal>> \o stack[p].goal_stack)

\* achieve called for a goal that does not hold and is on the goal stack fails.
CycleFails ==
    (/\ last.valid
     /\ last.frame.fn = "achieve"
     /\ last.frame.goal \notin Range(last.frame.states)
     /\ last.frame.goal \in Range(last.frame.goal_stack)) => last.value.isNone

\* The single goal A is reachable only through itself: A does not hold at the
\* start, every operator that adds A has a first precondition that does not hold
\* at the start either, and every operator adding that one asks for A first.
CycleCase ==
    /\ Len(goal_states) = 1
    /\ goal_states[1] \notin Range(initial_states)
    /\ \A k \in Candidates(goal_states[1]) :
          /\ operators[k].preconds # <<>>
          /\ operators[k].preconds[1] \notin Range(initial_states)
          /\ \A m \in Candidates(operators[k].preconds[1]) :
                /\ operators[m].preconds # <<>>
                /\ operators[m].preconds[1] = goal_states[1]

\* C6: every gps call that starts ends; no goal stack ever holds a fact twice,
\* achieve fails at once for a goal that is already on the goal stack, and a
\* solve whose goal is reachable only through itself ends without a plan.
C6_Terminates ==
    /\ [](/\ GoalStacksRepeatFree
          /\ CycleFails
          /\ (Finished /\ CycleCase) => Outcome.raised)
    /\ (phase = "running") ~> (phase = "done")

\* In a solve whose goal is reachable only through itself, achieve returned None
\* because its goal was on the goal stack, two apply_operator calls deep.
C6_Witness ==
    /\ CycleCase
    /\ Candidates(goal_states[1]) # {}
    /\ last.valid
    /\ last.frame.fn = "achieve"
    /\ last.frame.goal \notin Range(last.frame.states)
    /\ last.frame.goal \in Range(last.frame.goal_stack)
    /\ Len(last.frame.goal_stack) >= 2
    /\ last.value.isNone

\* C7: for a goal that does not hold and is not on the goal stack, achieve tries the
\* appropriate operators in the order of the collection, each on the states it
\* received; it returns the first result of apply_operator that is not a failure,
\* and fails only after every appropriate operator failed.
C7_FirstMatchThatWorks ==
    (/\ last.valid
     /\ last.frame.fn = "achieve"
     /\ last.frame.goal \notin Range(last.frame.states)
     /\ last.frame.goal \notin Range(last.frame.goal_stack)) =>
        LET f == last.frame
            n == Len(f.tried)
        IN /\ n <= Cardinality(Candidates(f.goal))
           /\ \A j \in 1..n : f.tried[j].op = NthCandidate(f.goal, j)
           /\ \A j \in 1..(n - 1) : f.tried[j].res.isNone
           /\ IF last.value.isNone
              THEN /\ n = Cardinality(Candidates(f.goal))
                   /\ \A j \in 1..n : f.tried[j].res.isNone
              ELSE /\ n >= 1
                   /\ ~f.tried[n].res.isNone
                   /\ last.value = f.tried[n].res

\* achieve succeeded through the second appropriate operator after the first failed.
C7_Witness ==
    /\ last.valid
    /\ last.frame.fn = "achieve"
    /\ Len(last.frame.tried) = 2
    /\ last.frame.tried[1].res.isNone
    /\ ~last.value.isNone
    /\ last.value = last.frame.tried[2].res

GoalsAlreadyHold == Range(goal_states) \subseteq Range(initial_states)

\* C8: when every goal fact is among the initial facts, gps returns the empty plan
\* and apply_operator is never entered, whatever the operators are.
C8_TrivialPlan ==
    GoalsAlreadyHold =>
        /\ \A n \in DOMAIN calls : ~calls[n].raised /\ calls[n].plan = <<>>
        /\ \A p \in DOMAIN stack : stack[p].fn # "apply_operator"
        /\ \A k \in DOMAIN live : live[k] = 0 /\ abandoned[k] = 0

\* gps returned for goals that all held at the start although an operator adds one.
C8_Witness ==
    /\ GoalsAlreadyHold
    /\ Finished
    /\ goal_states # <<>>
    /\ \E k \in DOMAIN operators : goal_states[1] \in Range(operators[k].add)

\* C9: whenever achieve_all on the preconditions returned a state list, the empty
\* one included, apply_operator returns that list without the delete facts,
\* followed by the add-list.
C9_AppliesWhenPrecondsAchieved ==
    (/\ last.valid
     /\ last.frame.fn = "apply_operator"
     /\ ~last.frame.sub.isNone) =>
        /\ ~last.value.isNone
        /\ last.value.val =
              SelectSeq(last.frame.sub.val,
                        LAMBDA s : s \notin Range(operators[last.frame.op].delete))
                  \o operators[last.frame.op].add

\* C10: every apply_operator starts from the states its achieve received, and in a
\* returned state list every bookkeeping fact counts the executions of its operator
\* on the branch still pursued: executions inside failed attempts leave nothing.
C10_FailedBranchesLeaveNoTrace ==
    /\ \A p \in DOMAIN stack :
          stack[p].fn = "apply_operator" =>
              /\ p >= 3
              /\ stack[p - 1].fn = "achieve"
              /\ stack[p - 2].fn = "achieve_all"
              /\ stack[p].states = stack[p - 1].states
              /\ stack[p].states = stack[p - 2].states
    /\ (last.valid /\ ~last.value.isNone) =>
          \A k \in DOMAIN operators :
              Count(last.value.val, Marker(operators[k]))
                  = live[k] * Count(operators[k].add, Marker(operators[k]))
    /\ Finished =>
          \A k \in DOMAIN operators :
              Count(Outcome.plan, Marker(operators[k]))
                  = IF Outcome.raised THEN 0
                    ELSE live[k] * Count(operators[k].add, Marker(operators[k]))

\* gps returned a plan after an attempt that had executed an action was given up.
C10_Witness ==
    /\ Finished
    /\ ~Outcome.raised
    /\ Outcome.plan # <<>>
    /\ \E k \in DOMAIN operators : abandoned[k] > 0 /\ live[k] = 0

=============================================================================
